---- MODULE Spec2Model ----
(***************************************************************************)
(* A model of the two learning engines of the repository:                  *)
(*   - LVQ      (src/lvq.py):     prototypes, train, feedforward,          *)
(*                                get_confusion, eval_accuracy/error_rate  *)
(*   - Network  (src/network.py): construction, save, load, feedforward,   *)
(*                                train (mini-batch SGD)                   *)
(* Real numbers of the LVQ engine are exact rationals <<num, den>>.        *)
(* Parameter values of the Network engine are terms: where the value came  *)
(* from (a random draw, a file) and the sequence of updates applied to it. *)
(***************************************************************************)
EXTENDS Integers, Sequences, FiniteSets, TLC

VARIABLES
    \* ---- LVQ instance (src/lvq.py) ----
    lvq,        \* constructor arguments: input_size, output_size, ppc
    init,       \* self.init
    weights,    \* self.weights: None, or the sequence of prototypes
    pc,         \* position of the LVQ caller: idle, or inside train's loops
    call,       \* arguments of the running / last train call
    eta,        \* train's local eta
    ei,         \* train's epoch index i
    ej,         \* index of the next example of the epoch
    sgn,        \* train's local s (0: not yet bound)
    tr_err,     \* train's local tr_err
    va_err,     \* train's local va_err
    result,     \* what the last call returned or raised
    pre,        \* history: self.weights when the running / last call began
    nupd,       \* history: number of examples processed by that train call
    calls,      \* history: number of train calls made
    \* ---- Network instances and the file they save to (src/network.py) ----
    nets,       \* instance name -> NoNet or the instance's fields
    file,       \* content of the YAML file: NoFile or the saved mapping
    npc,        \* position of the Network caller
    ncall,      \* arguments of the running / last Network.train call
    order,      \* tr_d after random.shuffle (a sequence of example ids)
    ni,         \* Network.train's epoch index i
    nb,         \* number of mini-batches of the epoch already taken
    nk,         \* number of examples of the current mini-batch already summed
    nabla,      \* the accumulators nabla_bC / nabla_wC: examples summed so far
    nresult,    \* what the last Network call returned or raised
    npre,       \* history: the instance's parameters when Network.train began
    nepre,      \* history: the instance's parameters when the epoch began
    nlog,       \* history: mini-batches applied so far in the epoch
    ncalls      \* history: number of Network operations performed

lvqvars == <<lvq, init, weights, pc, call, eta, ei, ej, sgn, tr_err, va_err,
             result, pre, nupd, calls>>
netvars == <<nets, file, npc, ncall, order, ni, nb, nk, nabla, nresult, npre,
             nepre, nlog, ncalls>>
vars == <<lvq, init, weights, pc, call, eta, ei, ej, sgn, tr_err, va_err,
          result, pre, nupd, calls,
          nets, file, npc, ncall, order, ni, nb, nk, nabla, nresult, npre,
          nepre, nlog, ncalls>>

----------------------------------------------------------------------------
(* Bounds of the model *)

\* epochs argument of a train call ranges over 0..MaxEpochs
MaxEpochs == 2
\* a training set holds 1..MaxLen examples
MaxLen == 2

----------------------------------------------------------------------------
(* Exact rational arithmetic: <<n, d>> with d > 0, in lowest terms *)

Abs(n) == IF n < 0 THEN -n ELSE n

RECURSIVE GCD(_, _)
GCD(a, b) == IF b = 0 THEN a ELSE GCD(b, a % b)

Norm(n, d) ==
    LET g == GCD(Abs(n), d) IN <<n \div g, d \div g>>

RInt(n) == <<n, 1>>
\* over the least common denominator, which keeps the intermediate products small
LCM(a, b) == (a \div GCD(a, b)) * b
RAdd(a, b) ==
    LET l == LCM(a[2], b[2]) IN Norm(a[1] * (l \div a[2]) + b[1] * (l \div b[2]), l)
RSub(a, b) ==
    LET l == LCM(a[2], b[2]) IN Norm(a[1] * (l \div a[2]) - b[1] * (l \div b[2]), l)
RMul(a, b) ==
    LET g1 == GCD(Abs(a[1]), b[2])
        g2 == GCD(Abs(b[1]), a[2])
    IN <<(a[1] \div g1) * (b[1] \div g2), (a[2] \div g2) * (b[2] \div g1)>>
RLt(a, b)  ==
    LET l == LCM(a[2], b[2]) IN a[1] * (l \div a[2]) < b[1] * (l \div b[2])

\* numpy's elementwise x - w, c * v and w + v on vectors of the same length
VSub(x, w)   == [k \in 1..Len(x) |-> RSub(x[k], w[k])]
VAdd(x, w)   == [k \in 1..Len(x) |-> RAdd(x[k], w[k])]
VScale(c, v) == [k \in 1..Len(v) |-> RMul(c, v[k])]

RECURSIVE RSum(_)
RSum(s) == IF s = <<>> THEN RInt(0) ELSE RAdd(s[1], RSum(Tail(s)))

----------------------------------------------------------------------------
(* Inputs *)

\* self.weights = None
None == <<>>

\* rationals <<n, 1>> of the two coordinates of a point
Pt(a, b) == <<RInt(a), RInt(b)>>
GoodX == {Pt(0, 0), Pt(0, 1), Pt(1, 0)}
\* a feature vector one element too long for the engines constructed here
BadX == <<RInt(0), RInt(0), RInt(0)>>

GoodExamples ==
    {[x |-> Pt(0, 0), y |-> 0], [x |-> Pt(0, 1), y |-> 1], [x |-> Pt(1, 0), y |-> 1]}
Examples == GoodExamples \cup {[x |-> BadX, y |-> 0]}

TrainSets == UNION {[1..n -> Examples] : n \in 1..MaxLen}
\* va_d: None / [] (both falsy), or a validation set
ValSets == {<<>>, <<[x |-> Pt(0, 1), y |-> 0]>>}
\* the eta argument of train (0.5, as in the spec's scenario); with eta_decay
\* the local eta then moves to 1/3 or 1
Etas == {<<1, 2>>}
\* the training set an engine that starts initialised was initialised from
InitSet == <<[x |-> Pt(0, 0), y |-> 0], [x |-> Pt(1, 1), y |-> 1]>>
\* feature vectors handed to feedforward
CallX == {Pt(1, 0), BadX}
\* datasets handed to the evaluation methods
EvalSets ==
    {<<[x |-> Pt(0, 0), y |-> 0], [x |-> Pt(1, 1), y |-> 1]>>,
     <<[x |-> Pt(0, 1), y |-> 0], [x |-> Pt(1, 0), y |-> 0], [x |-> Pt(1, 0), y |-> 1]>>}

\* estop is left at its default (True) when no validation set is given
TrainArgs ==
    {a \in [tr_d : TrainSets, eta : Etas, epochs : 0..MaxEpochs,
            eta_decay : BOOLEAN, va_d : ValSets, estop : BOOLEAN] :
        a.va_d = <<>> => a.estop}

NoCall ==
    [tr_d |-> <<>>, eta |-> RInt(0), epochs |-> 0, eta_decay |-> FALSE,
     va_d |-> <<>>, estop |-> FALSE]

----------------------------------------------------------------------------
(* LVQ: pure parts *)

\* lib.lvq.distance, 'euclidean': sqrt(sum((x_i - w_i)^2)).  The square root
\* is monotone, so the order of the distances (all that argmin reads) is the
\* order of the squared distances computed here.
Distance(x, w) ==
    RSum([k \in 1..Len(x) |-> RMul(RSub(x[k], w[k]), RSub(x[k], w[k]))])

\* numpy raises on operands of different lengths (none here has length 1,
\* which numpy would broadcast)
ShapeOK(x, n) == Len(x) = n

\* the list d built by the loop over self.weights
Distances(x, W) == [p \in 1..Len(W) |-> Distance(x, W[p])]

\* np.argmin: 0-based index of the first occurrence of the minimum
RECURSIVE ArgMinScan(_, _, _)
ArgMinScan(d, k, best) ==
    IF k > Len(d) THEN best
    ELSE ArgMinScan(d, k + 1, IF RLt(d[k], d[best]) THEN k ELSE best)

\* a variant of ArgMin that returns the last occurrence of the minimum
ArgMinLast(d) ==
    LET RECURSIVE Scan(_, _)
        Scan(k, best) ==
            IF k > Len(d) THEN best
            ELSE Scan(k + 1, IF RLt(d[best], d[k]) THEN best ELSE k)
    IN Scan(2, 1) - 1

ArgMin(d) == ArgMinScan(d, 2, 1) - 1

\* LVQ.feedforward on an initialised engine
Feedforward(W, out, x) == ArgMin(Distances(x, W)) % out

\* s of LVQ.train: 1 when the BMU's class is the label, else -1
Sign(bmu, out, y) == IF bmu % out = y THEN 1 ELSE -1

\* a variant of Update that moves every prototype
UpdateAll(W, bmu, s, e, x) ==
    [p \in 1..Len(W) |-> VAdd(W[p], VScale(RMul(RInt(s), e), VSub(x, W[p])))]

\* self.weights[bmu] += s * eta * (x - self.weights[bmu])
Update(W, bmu, s, e, x) ==
    [W EXCEPT ![bmu + 1] =
        VAdd(W[bmu + 1], VScale(RMul(RInt(s), e), VSub(x, W[bmu + 1])))]

\* eta = eta / (1 + s * eta) if eta < 1 else 1
Decay(e, s) ==
    IF RLt(e, RInt(1)) THEN Norm(e[1], e[2] + s * e[1]) ELSE RInt(1)

\* LVQ.eval_accuracy: the number of examples classified as their label
EvalAccuracy(W, out, data) ==
    Cardinality({k \in 1..Len(data) : Feedforward(W, out, data[k].x) = data[k].y})

\* LVQ.eval_error_rate
EvalErrorRate(W, out, data) ==
    RSub(RInt(1), Norm(EvalAccuracy(W, out, data), Len(data)))

\* a variant of GetConfusion with rows and columns exchanged
GetConfusionT(W, out, data) ==
    [r \in 0..(out - 1) |-> [c \in 0..(out - 1) |->
        Cardinality({k \in 1..Len(data) :
            data[k].y = c /\ Feedforward(W, out, data[k].x) = r})]]

\* LVQ.get_confusion: mat[y][a] += 1 for every example
GetConfusion(W, out, data) ==
    [r \in 0..(out - 1) |-> [c \in 0..(out - 1) |->
        Cardinality({k \in 1..Len(data) :
            data[k].y = r /\ Feedforward(W, out, data[k].x) = c})]]

\* a variant of EarlyStop that never leaves the loop
EarlyStopNever(estop, va) == FALSE

\* `if estop and va_err[-1] < 0.01: break`
EarlyStop(estop, va) == estop /\ RLt(va[Len(va)], <<1, 100>>)

\* lib.lvq.weight_init, 'average': prototype p (0-based) belongs to class
\* p mod output_size and starts at the mean of that class's training examples;
\* a class without examples starts at the origin.
ClassMean(c, n, data) ==
    LET idx == {k \in 1..Len(data) : data[k].y = c}
        RECURSIVE Sum(_)
        Sum(S) == IF S = {} THEN [k \in 1..n |-> RInt(0)]
                  ELSE LET k == CHOOSE k \in S : TRUE
                       IN VAdd(data[k].x, Sum(S \ {k}))
    IN IF idx = {} THEN [k \in 1..n |-> RInt(0)]
       ELSE VScale(<<1, Cardinality(idx)>>, Sum(idx))

WeightInit(n, out, ppc, data) ==
    [p \in 1..(out * ppc) |-> ClassMean((p - 1) % out, n, data)]

WeightInitOK(n, data) == \A k \in 1..Len(data) : ShapeOK(data[k].x, n)

----------------------------------------------------------------------------
(* LVQ: the instance and its operations *)

Raised(what) == [kind |-> "raised", val |-> what]
NoResult == [kind |-> "none", val |-> 0]

\* LVQ.__init__; an engine may also start Initialized, as train(InitSet, eta,
\* epochs=0) leaves it: prototypes at the class means, none updated yet
LVQInit ==
    /\ lvq \in [input_size : {2}, output_size : {2}, ppc : {1, 2}]
    /\ init \in BOOLEAN
    /\ weights = IF init
                 THEN WeightInit(lvq.input_size, lvq.output_size, lvq.ppc, InitSet)
                 ELSE None
    /\ pc = "idle"
    /\ call = NoCall
    /\ eta = RInt(0)
    /\ ei = 0
    /\ ej = 0
    /\ sgn = 0
    /\ tr_err = <<>>
    /\ va_err = <<>>
    /\ result = NoResult
    /\ pre = None
    /\ nupd = 0
    /\ calls = 0

\* `return tr_err, va_err`
Return(tr, va) ==
    /\ pc' = "idle"
    /\ result' = [kind |-> "train", val |-> [tr_err |-> tr, va_err |-> va]]

\* LVQ.train, up to the first example of the first epoch: the lazy
\* initialisation of the prototypes and the locals of the call
Train(args) ==
    /\ UNCHANGED netvars
    /\ calls' = calls + 1
    /\ call' = args
    /\ pre' = weights
    /\ nupd' = 0
    /\ UNCHANGED lvq
    /\ IF ~init /\ ~WeightInitOK(lvq.input_size, args.tr_d)
       THEN \* self.weight_init raises: neither assignment is reached
            /\ result' = Raised("ValueError")
            /\ UNCHANGED <<init, weights, pc, eta, ei, ej, sgn, tr_err, va_err>>
       ELSE /\ weights' = IF init THEN weights
                          ELSE WeightInit(lvq.input_size, lvq.output_size,
                                          lvq.ppc, args.tr_d)
            /\ init' = TRUE
            /\ eta' = args.eta
            /\ ei' = 0
            /\ ej' = 0
            /\ sgn' = 0
            /\ tr_err' = <<>>
            /\ va_err' = <<>>
            /\ IF args.epochs = 0
               THEN Return(<<>>, <<>>)
               ELSE pc' = "example" /\ result' = NoResult

\* one iteration of `for x, y in tr_d`
TrainExample ==
    /\ UNCHANGED netvars
    /\ pc = "example"
    /\ LET ex == call.tr_d[ej + 1] IN
       IF ~ShapeOK(ex.x, lvq.input_size)
       THEN \* self.distance(x, w) raises; train is left at once
            /\ pc' = "idle"
            /\ result' = Raised("ValueError")
            /\ UNCHANGED <<weights, ej, sgn, nupd>>
       ELSE LET bmu == ArgMin(Distances(ex.x, weights))
                s   == Sign(bmu, lvq.output_size, ex.y)
            IN /\ weights' = Update(weights, bmu, s, eta, ex.x)
               /\ sgn' = s
               /\ ej' = ej + 1
               /\ nupd' = nupd + 1
               /\ pc' = IF ej + 1 = Len(call.tr_d) THEN "epoch_end" ELSE "example"
               /\ UNCHANGED result
    /\ UNCHANGED <<lvq, init, call, eta, ei, tr_err, va_err, pre, calls>>

\* the rest of the epoch's body: eta decay, the two error rates, early stop
TrainEpochEnd ==
    /\ UNCHANGED netvars
    /\ pc = "epoch_end"
    /\ LET tr == Append(tr_err, EvalErrorRate(weights, lvq.output_size, call.tr_d))
           va == IF call.va_d # <<>>
                 THEN Append(va_err, EvalErrorRate(weights, lvq.output_size, call.va_d))
                 ELSE va_err
       IN /\ eta' = IF call.eta_decay THEN Decay(eta, sgn) ELSE eta
          /\ tr_err' = tr
          /\ va_err' = va
          /\ IF (call.va_d # <<>> /\ EarlyStop(call.estop, va))
                \/ ei + 1 >= call.epochs
             THEN Return(tr, va) /\ UNCHANGED <<ei, ej>>
             ELSE /\ ei' = ei + 1
                  /\ ej' = 0
                  /\ pc' = "example"
                  /\ UNCHANGED result
    /\ UNCHANGED <<lvq, init, weights, call, sgn, pre, nupd, calls>>

\* train's locals are gone once another method of the instance runs
Forget ==
    /\ call' = NoCall
    /\ eta' = RInt(0)
    /\ ei' = 0
    /\ ej' = 0
    /\ sgn' = 0
    /\ tr_err' = <<>>
    /\ va_err' = <<>>
    /\ nupd' = 0
    /\ pre' = weights

\* LVQ.feedforward / __call__: `for w in self.weights` raises on None
FeedforwardCall(x) ==
    /\ result' = IF weights = None THEN Raised("TypeError")
                 ELSE IF ~ShapeOK(x, lvq.input_size) THEN Raised("ValueError")
                 ELSE [kind |-> "class",
                       val |-> [x |-> x, a |-> Feedforward(weights, lvq.output_size, x)]]
    /\ Forget
    /\ UNCHANGED <<lvq, init, weights, pc, calls>>
    /\ UNCHANGED netvars

\* get_confusion, eval_accuracy and eval_error_rate on one dataset
Evaluate(data) ==
    /\ result' = IF weights = None THEN Raised("TypeError")
                 ELSE [kind |-> "eval",
                       val |-> [data |-> data,
                                mat  |-> GetConfusion(weights, lvq.output_size, data),
                                acc  |-> EvalAccuracy(weights, lvq.output_size, data),
                                err  |-> EvalErrorRate(weights, lvq.output_size, data)]]
    /\ Forget
    /\ UNCHANGED <<lvq, init, weights, pc, calls>>
    /\ UNCHANGED netvars

LVQNext ==
    \/ /\ pc = "idle"
       /\ calls = 0
       /\ \E args \in TrainArgs : Train(args)
    \/ TrainExample
    \/ TrainEpochEnd
    \/ /\ pc = "idle"
       /\ \E x \in CallX : FeedforwardCall(x)
    \/ /\ pc = "idle"
       /\ \E data \in EvalSets : Evaluate(data)

----------------------------------------------------------------------------
(* Network: values, instances, files *)

Names == {"A", "B"}

\* A matrix is its shape and its value.  A value is a term: the draw or the
\* file it came from, and the updates applied to it since, in order.
Matrix(r, c, src, who) ==
    [shape |-> <<r, c>>, v |-> [src |-> src, who |-> who, hist |-> <<>>]]

\* np.random.randn(y, 1) for y in struct[1:]
RandBiases(struct, who) ==
    [l \in 1..(Len(struct) - 1) |-> Matrix(struct[l + 1], 1, "randn", who)]

\* np.random.randn(y, x) / np.sqrt(x) for x, y in zip(struct[:-1], struct[1:])
RandWeights(struct, who) ==
    [l \in 1..(Len(struct) - 1) |-> Matrix(struct[l + 1], struct[l], "randn", who)]

\* no instance of that name: never constructed, or the constructor raised
NoNet ==
    [alive |-> FALSE, n_layers |-> 0, struct |-> <<>>, regularization |-> "",
     activation |-> "", cost |-> "", eta |-> "", biases |-> <<>>,
     weights |-> <<>>, st |-> "none"]

\* Network.__init__ (momentum and lambda_ are stored and never read by the
\* methods modelled; self.a / self.z are scratch of feedforward)
ConstructUnchecked(who, args) ==
    [alive |-> TRUE, n_layers |-> Len(args.struct), struct |-> args.struct,
     regularization |-> args.regularization, activation |-> args.activation,
     cost |-> args.cost, eta |-> args.learning_rate,
     biases |-> RandBiases(args.struct, who),
     weights |-> RandWeights(args.struct, who), st |-> "constructed"]

Construct(who, args) ==
    IF args.cost = "cross-entropy" /\ args.activation # "sigmoid"
    THEN NoNet
    ELSE ConstructUnchecked(who, args)

\* the keys lib.activation and lib.cost resolve; any other key raises
Activations == {"sigmoid", "tanh"}
Costs == {"quadratic", "cross-entropy"}

PoolA ==
    [struct : {<<2, 1>>, <<2, 2, 1>>}, activation : Activations, cost : Costs,
     regularization : {"L2"}, learning_rate : {"0.6"}]
PoolB ==
    [struct : {<<2, 1>>, <<2, 2, 1>>}, activation : {"sigmoid"}, cost : Costs,
     regularization : {"none", "L2"}, learning_rate : {"3.0"}]

\* w.tolist(): one list per row, each of the row's length
ToList(m) ==
    [rowlens |-> [i \in 1..m.shape[1] |-> m.shape[2]], v |-> m.v]

\* np.array(list) of a rectangular list of lists
FromList(l) ==
    [shape |-> <<Len(l.rowlens), l.rowlens[1]>>, v |-> l.v]

NoFile ==
    [exists |-> FALSE, struct |-> <<>>, activation |-> "", cost |-> "",
     eta |-> "", weights |-> <<>>, biases |-> <<>>]

\* Network.save: the mapping handed to yaml.dump
Saved(net) ==
    [exists |-> TRUE, struct |-> net.struct, activation |-> net.activation,
     cost |-> net.cost, eta |-> net.eta,
     weights |-> [l \in 1..Len(net.weights) |-> ToList(net.weights[l])],
     biases  |-> [l \in 1..Len(net.biases)  |-> ToList(net.biases[l])]]

\* the file after an edit by hand ("can be edited by hand", save's docstring)
HandList(r, c) == [rowlens |-> [i \in 1..r |-> c], v |-> [src |-> "file", who |-> "hand", hist |-> <<>>]]
HandFiles ==
    {[exists |-> TRUE, struct |-> <<2, 1>>, activation |-> "tanh",
      cost |-> "cross-entropy", eta |-> "0.6",
      weights |-> <<HandList(1, 2)>>, biases |-> <<HandList(1, 1)>>],
     [exists |-> TRUE, struct |-> <<2, 1>>, activation |-> "sigmoid",
      cost |-> "quadratic", eta |-> "0.6",
      weights |-> <<HandList(1, 3)>>, biases |-> <<HandList(1, 1)>>],
     [exists |-> TRUE, struct |-> <<2, 1>>, activation |-> "tanh",
      cost |-> "bogus", eta |-> "0.6",
      weights |-> <<HandList(1, 2)>>, biases |-> <<HandList(1, 1)>>]}

\* Network.load: the assignments in the order of the code; a key lib.activation
\* or lib.cost does not resolve raises there, after the assignments before it
Loaded(net, f) ==
    LET n1 == [net EXCEPT !.struct = f.struct]
        n2 == [n1 EXCEPT !.activation = f.activation]
        n3 == [n2 EXCEPT !.cost = f.cost, !.eta = f.eta,
                         !.biases  = [l \in 1..Len(f.biases)  |-> FromList(f.biases[l])],
                         !.weights = [l \in 1..Len(f.weights) |-> FromList(f.weights[l])],
                         !.st = "loaded"]
    IN IF f.activation \notin Activations THEN n1
       ELSE IF f.cost \notin Costs THEN n2
       ELSE n3

LoadRaises(f) == f.activation \notin Activations \/ f.cost \notin Costs

\* length of the feature vector of example id (id 9: one element too long)
XLen(id) == IF id = 9 THEN 3 ELSE 2

\* feedforward's np.dot(w, act) + b goes through for an input of n elements:
\* every weight matrix has as many columns as the vector it multiplies, and
\* every bias as many rows as the product (or one row, which numpy broadcasts)
RECURSIVE ChainOK(_, _, _, _)
ChainOK(ws, bs, l, n) ==
    IF l > Len(ws) \/ l > Len(bs) THEN TRUE
    ELSE /\ ws[l].shape[2] = n
         /\ bs[l].shape[1] \in {1, ws[l].shape[1]}
         /\ ChainOK(ws, bs, l + 1, ws[l].shape[1])

ForwardOK(net, n) == ChainOK(net.weights, net.biases, 1, n)

\* backpropagation goes through: feedforward does, and the loop over
\* range(2, self.n_layers) finds a z, a weight and an activation at every -l
BackpropOK(net, n) ==
    /\ ForwardOK(net, n)
    /\ net.n_layers - 1 <= Len(net.weights)

\* the output of feedforward, as a term
Output(net, id) ==
    [activation |-> net.activation, weights |-> net.weights,
     biases |-> net.biases, x |-> id]

\* a variant of Batches that keeps the trailing shorter group
BatchesKeepRest(ord, bs) ==
    [b \in 1..((Len(ord) + bs - 1) \div bs) |->
        SubSeq(ord, (b - 1) * bs + 1, IF b * bs < Len(ord) THEN b * bs ELSE Len(ord))]

\* zip(*[iter(tr_d)] * batch_size): consecutive groups of batch_size examples,
\* the trailing shorter group dropped
Batches(ord, bs) ==
    [b \in 1..(Len(ord) \div bs) |-> SubSeq(ord, (b - 1) * bs + 1, b * bs)]

\* the update of one matrix from the accumulated gradients of a mini-batch:
\* b - eta * nb, or w - eta * (nw + regularization.derivative(w, lambda_, n)).
\* Layer l of L has a gradient only if backpropagation's loop reached it.
Entry(net, l, isWeight, batch, n) ==
    [batch |-> batch,
     grad  |-> l >= Len(net.weights) - net.n_layers + 2,
     eta   |-> net.eta,
     reg   |-> IF isWeight THEN net.regularization ELSE "",
     n     |-> IF isWeight THEN n ELSE 0]

Bump(m, e) == [m EXCEPT !.v.hist = Append(m.v.hist, e)]

Updated(net, batch, n) ==
    [net EXCEPT
        !.biases  = [l \in 1..Len(net.biases) |->
                        Bump(net.biases[l], Entry(net, l, FALSE, batch, n))],
        !.weights = [l \in 1..Len(net.weights) |->
                        Bump(net.weights[l], Entry(net, l, TRUE, batch, n))],
        !.st = "trained"]

\* the orders random.shuffle can leave tr_d in
Perms(seq) ==
    {o \in [1..Len(seq) -> {seq[k] : k \in 1..Len(seq)}] :
        \A k \in 1..Len(seq) :
            Cardinality({i \in 1..Len(seq) : o[i] = seq[k]}) =
            Cardinality({i \in 1..Len(seq) : seq[i] = seq[k]})}

----------------------------------------------------------------------------
(* Network: operations *)

\* operations on the instances and the file in one behaviour of SpecNet
MaxOps == 2
\* the epochs argument of Network.train ranges over 1..MaxNetEpochs
MaxNetEpochs == 2
\* a training set of SpecNetTrain holds 1..MaxTrain examples
MaxTrain == 3

NoNetCall == [who |-> "A", tr_d |-> <<>>, epochs |-> 0, batch_size |-> 1]
NoNetResult == [kind |-> "none", who |-> "", val |-> 0]
NetRaised(who, what) == [kind |-> "raised", who |-> who, val |-> what]

\* the parameters of an instance
Params(net) == [biases |-> net.biases, weights |-> net.weights]
NoParams == [biases |-> <<>>, weights |-> <<>>]

\* the instances after their construction
NetInit ==
    /\ nets \in {[n \in Names |-> IF n = "A" THEN a ELSE b] :
                    a \in {Construct("A", args) : args \in PoolA},
                    b \in {Construct("B", args) : args \in PoolB} \cup {NoNet}}
    /\ file = NoFile
    /\ npc = "idle"
    /\ ncall = NoNetCall
    /\ order = <<>>
    /\ ni = 0
    /\ nb = 0
    /\ nk = 0
    /\ nabla = <<>>
    /\ nresult = NoNetResult
    /\ npre = NoParams
    /\ nepre = NoParams
    /\ nlog = <<>>
    /\ ncalls = 0

\* train's locals and the history of the last train call are dropped when
\* another operation begins
NetForget ==
    /\ ncall' = NoNetCall
    /\ order' = <<>>
    /\ ni' = 0
    /\ nb' = 0
    /\ nk' = 0
    /\ nabla' = <<>>
    /\ npre' = NoParams
    /\ nepre' = NoParams
    /\ nlog' = <<>>

\* Network.save
NetSave(n) ==
    /\ UNCHANGED lvqvars
    /\ nets[n].alive
    /\ file' = Saved(nets[n])
    /\ nresult' = [kind |-> "saved", who |-> n, val |-> 0]
    /\ ncalls' = ncalls + 1
    /\ NetForget
    /\ UNCHANGED <<nets, npc>>

\* Network.load
NetLoad(n) ==
    /\ UNCHANGED lvqvars
    /\ nets[n].alive
    /\ IF ~file.exists
       THEN /\ nresult' = NetRaised(n, "IOError")
            /\ UNCHANGED nets
       ELSE /\ nets' = [nets EXCEPT ![n] = Loaded(nets[n], file)]
            /\ nresult' = IF LoadRaises(file) THEN NetRaised(n, "Exception")
                          ELSE [kind |-> "loaded", who |-> n, val |-> 0]
    /\ ncalls' = ncalls + 1
    /\ NetForget
    /\ UNCHANGED <<file, npc>>

\* the user edits the YAML file by hand
EditFile(f) ==
    /\ UNCHANGED lvqvars
    /\ file' = f
    /\ nresult' = NoNetResult
    /\ ncalls' = ncalls + 1
    /\ NetForget
    /\ UNCHANGED <<nets, npc>>

\* Network.feedforward / __call__ on the feature vector of example id
NetFeedforward(n, id) ==
    /\ UNCHANGED lvqvars
    /\ nets[n].alive
    /\ nresult' = IF ForwardOK(nets[n], XLen(id))
                  THEN [kind |-> "output", who |-> n, val |-> Output(nets[n], id)]
                  ELSE NetRaised(n, "ValueError")
    /\ ncalls' = ncalls + 1
    /\ NetForget
    /\ UNCHANGED <<nets, file, npc>>

\* `return tr_acc, tr_err, tr_cost, va_acc, va_err, va_cost`: with the default
\* monitoring, the training histories hold one entry per epoch
NetReturn(n, epochs) ==
    /\ npc' = "idle"
    /\ nresult' = [kind |-> "train", who |-> n, val |-> epochs]

\* Network.train, up to the first shuffle
NetTrain(n, args) ==
    /\ UNCHANGED lvqvars
    /\ nets[n].alive
    /\ ncall' = [who |-> n, tr_d |-> args.tr_d, epochs |-> args.epochs,
                 batch_size |-> args.batch_size]
    /\ npre' = Params(nets[n])
    /\ nepre' = Params(nets[n])
    /\ nlog' = <<>>
    /\ order' = args.tr_d
    /\ ni' = 0
    /\ nb' = 0
    /\ nk' = 0
    /\ nabla' = <<>>
    /\ ncalls' = ncalls + 1
    /\ IF args.epochs = 0
       THEN NetReturn(n, 0)
       ELSE npc' = "shuffle" /\ nresult' = NoNetResult
    /\ UNCHANGED <<nets, file>>

\* random.shuffle(tr_d), in place, then the split into mini-batches
NetShuffle ==
    /\ UNCHANGED lvqvars
    /\ npc = "shuffle"
    /\ \E o \in Perms(order) :
          /\ order' = o
          /\ npc' = IF Batches(o, ncall.batch_size) = <<>> THEN "epoch_end" ELSE "batch"
    /\ nb' = 0
    /\ nk' = 0
    /\ nabla' = <<>>
    /\ nlog' = <<>>
    /\ nepre' = Params(nets[ncall.who])
    /\ UNCHANGED <<nets, file, ncall, ni, nresult, npre, ncalls>>

\* one iteration of `for x, y in mini_batch`: backpropagation, summed into
\* the accumulators
NetBackprop ==
    /\ UNCHANGED lvqvars
    /\ npc = "batch"
    /\ LET batch == Batches(order, ncall.batch_size)[nb + 1]
           id    == batch[nk + 1]
       IN IF ~BackpropOK(nets[ncall.who], XLen(id))
          THEN \* feedforward or the backward loop raises; train is left at once
               /\ npc' = "idle"
               /\ nresult' = NetRaised(ncall.who, "ValueError")
               /\ UNCHANGED <<nk, nabla>>
          ELSE /\ nabla' = Append(nabla, id)
               /\ nk' = nk + 1
               /\ npc' = IF nk + 1 = Len(batch) THEN "update" ELSE "batch"
               /\ UNCHANGED nresult
    /\ UNCHANGED <<nets, file, ncall, order, ni, nb, npre, nepre, nlog, ncalls>>

\* the update of self.biases and self.weights from the accumulators
NetUpdate ==
    /\ UNCHANGED lvqvars
    /\ npc = "update"
    /\ nets' = [nets EXCEPT ![ncall.who] =
                    Updated(nets[ncall.who], nabla, Len(ncall.tr_d))]
    /\ nlog' = Append(nlog, nabla)
    /\ nb' = nb + 1
    /\ nk' = 0
    /\ nabla' = <<>>
    /\ npc' = IF nb + 1 = Len(Batches(order, ncall.batch_size))
              THEN "epoch_end" ELSE "batch"
    /\ UNCHANGED <<file, ncall, order, ni, nresult, npre, nepre, ncalls>>

\* the monitoring of the epoch: eval_accuracy and eval_error_rate feed every
\* example of tr_d forward, the ones no mini-batch took included
NetEpochEnd ==
    /\ UNCHANGED lvqvars
    /\ npc = "epoch_end"
    /\ IF \E k \in 1..Len(order) : ~ForwardOK(nets[ncall.who], XLen(order[k]))
       THEN /\ npc' = "idle"
            /\ nresult' = NetRaised(ncall.who, "ValueError")
            /\ UNCHANGED ni
       ELSE /\ ni' = ni + 1
            /\ IF ni + 1 >= ncall.epochs
               THEN NetReturn(ncall.who, ni + 1)
               ELSE npc' = "shuffle" /\ UNCHANGED nresult
    /\ UNCHANGED <<nets, file, ncall, order, nb, nk, nabla, npre, nepre, nlog, ncalls>>

\* training sets: example ids, 9 being the example of the wrong length
Ids(n) == [k \in 1..n |-> k]
NetTrainSets ==
    {Ids(n) : n \in 1..MaxTrain} \cup {Append(Ids(n), 9) : n \in 1..(MaxTrain - 1)}
NetTrainArgs ==
    [tr_d : NetTrainSets, epochs : 1..MaxNetEpochs, batch_size : {1, 2}]
SmallTrainArgs ==
    [tr_d : {<<1, 2>>, <<1, 9>>, <<1, 2, 9>>}, epochs : {1}, batch_size : {1, 2}]

NetTrainSteps ==
    \/ NetShuffle
    \/ NetBackprop
    \/ NetUpdate
    \/ NetEpochEnd

NetNext ==
    \/ /\ npc = "idle"
       /\ ncalls < MaxOps
       /\ \E n \in Names : NetSave(n)
    \/ /\ npc = "idle"
       /\ ncalls < MaxOps
       /\ \E n \in Names : NetLoad(n)
    \/ /\ npc = "idle"
       /\ ncalls < MaxOps
       /\ \E f \in HandFiles : EditFile(f)
    \/ /\ npc = "idle"
       /\ ncalls < MaxOps
       /\ \E n \in Names, id \in {1, 9} : NetFeedforward(n, id)
    \/ /\ npc = "idle"
       /\ ncalls < MaxOps
       /\ \E n \in Names, args \in SmallTrainArgs : NetTrain(n, args)
    \/ NetTrainSteps

\* one train call on instance A
NetTrainNext ==
    \/ /\ npc = "idle"
       /\ ncalls = 0
       /\ \E args \in NetTrainArgs : NetTrain("A", args)
    \/ NetTrainSteps

\* no LVQ engine is constructed
NoLVQ ==
    /\ lvq = [input_size |-> 2, output_size |-> 2, ppc |-> 1]
    /\ init = FALSE
    /\ weights = None
    /\ pc = "idle"
    /\ call = NoCall
    /\ eta = RInt(0)
    /\ ei = 0
    /\ ej = 0
    /\ sgn = 0
    /\ tr_err = <<>>
    /\ va_err = <<>>
    /\ result = NoResult
    /\ pre = None
    /\ nupd = 0
    /\ calls = 0

\* no Network is constructed
NoNetwork ==
    /\ nets = [n \in Names |-> NoNet]
    /\ file = NoFile
    /\ npc = "idle"
    /\ ncall = NoNetCall
    /\ order = <<>>
    /\ ni = 0
    /\ nb = 0
    /\ nk = 0
    /\ nabla = <<>>
    /\ nresult = NoNetResult
    /\ npre = NoParams
    /\ nepre = NoParams
    /\ nlog = <<>>
    /\ ncalls = 0

InitLVQ == LVQInit /\ NoNetwork
InitNet == NoLVQ /\ NetInit
InitNetTrain ==
    NoLVQ /\ NetInit /\ nets["B"] = NoNet /\ nets["A"].activation = "sigmoid"

\* an LVQ engine and the calls made on it
SpecLVQ == InitLVQ /\ [][LVQNext]_vars

\* two Network instances, the file, and up to MaxOps operations on them
SpecNet == InitNet /\ [][NetNext]_vars

\* one Network instance and one train call on it
SpecNetTrain == InitNetTrain /\ [][NetTrainNext]_vars

----------------------------------------------------------------------------
(* Claims about the LVQ engine, checked under SpecLVQ *)

RLe(a, b) == ~RLt(b, a)
OnePercent == <<1, 100>>

\* train has returned its two histories
Returned == pc = "idle" /\ result.kind = "train"

\* the 1-based positions of the prototypes at minimum distance from x
Nearest(W, x) ==
    {p \in 1..Len(W) : \A q \in 1..Len(W) : RLe(Distance(x, W[p]), Distance(x, W[q]))}

\* the first of them
FirstNearest(W, x) ==
    CHOOSE p \in Nearest(W, x) : \A q \in Nearest(W, x) : p <= q

\* C1: a train call with a validation set returns histories of equal length n,
\* has processed exactly n epochs of examples, and each recorded validation
\* error is the engine's error after that epoch; with estop, n is the first
\* epoch whose validation error is below 0.01 (or epochs if there is none);
\* without estop, n = epochs.
C1_EarlyStop ==
    (Returned /\ call.va_d # <<>>) =>
        LET tr == result.val.tr_err
            va == result.val.va_err
            n  == Len(tr)
        IN /\ Len(va) = n
           /\ n <= call.epochs
           /\ nupd = n * Len(call.tr_d)
           /\ n > 0 => va[n] = EvalErrorRate(weights, lvq.output_size, call.va_d)
           /\ \A k \in 1..(n - 1) : call.estop => RLe(OnePercent, va[k])
           /\ IF call.estop /\ n > 0 /\ RLt(va[n], OnePercent)
              THEN TRUE
              ELSE n = call.epochs

\* a call stopped by estop after its first epoch, with epochs left to run
C1_Witness ==
    /\ Returned
    /\ call.estop
    /\ call.va_d # <<>>
    /\ Len(result.val.va_err) = 1
    /\ call.epochs > 1
    /\ nupd = Len(call.tr_d)

\* C2: a step that processes one training example changes the first nearest
\* prototype to w + eta*(x - w) when its class is the label and to
\* w - eta*(x - w) otherwise, and leaves every other prototype and the number
\* of prototypes as they were.
C2_OnePrototypeMoves ==
    [][nupd' = nupd + 1 =>
        LET ex == call.tr_d[ej + 1]
            b  == FirstNearest(weights, ex.x)
            w  == weights[b]
            step == VScale(eta, VSub(ex.x, w))
        IN /\ Len(weights') = Len(weights)
           /\ \A p \in 1..Len(weights) : p # b => weights'[p] = weights[p]
           /\ weights'[b] = IF (b - 1) % lvq.output_size = ex.y
                            THEN VAdd(w, step)
                            ELSE VSub(w, step)]_vars

\* an example has just pushed a prototype away, with two prototypes per class
C2_Witness ==
    /\ pc \in {"example", "epoch_end"}
    /\ nupd > 0
    /\ sgn = -1
    /\ lvq.ppc = 2
    /\ weights # pre

\* C3: feedforward returns (0-based index of the first nearest prototype) mod
\* output_size, a class in [0, output_size); it leaves the prototypes as they
\* were, and a second call with the same input returns the same class.
C3_Classify ==
    /\ [](result.kind = "class" =>
            /\ result.val.a = (FirstNearest(weights, result.val.x) - 1) % lvq.output_size
            /\ result.val.a \in 0..(lvq.output_size - 1)
            /\ weights = pre)
    /\ [][(result.kind = "class" /\ result'.kind = "class"
           /\ result'.val.x = result.val.x)
          => (result'.val.a = result.val.a /\ weights' = weights)]_vars

\* a classification decided by the tie-break: the nearest prototypes are of
\* both classes
C3_Witness ==
    /\ result.kind = "class"
    /\ nupd = 0
    /\ \E p, q \in Nearest(weights, result.val.x) :
          p % lvq.output_size # q % lvq.output_size

\* C9: each row of the confusion matrix sums to the number of examples of that
\* label, its trace is eval_accuracy, trace / len(data) = 1 - eval_error_rate,
\* and the prototypes are as before the call.
C9_Confusion ==
    result.kind = "eval" =>
        LET data == result.val.data
            mat  == result.val.mat
            out  == lvq.output_size
            trace == mat[0][0] + mat[1][1]
        IN /\ \A r \in 0..(out - 1) :
                mat[r][0] + mat[r][1] = Cardinality({k \in 1..Len(data) : data[k].y = r})
           /\ trace = result.val.acc
           /\ Norm(trace, Len(data)) = RSub(RInt(1), result.val.err)
           /\ weights = pre

\* a confusion matrix with a misclassified example, of a trained engine
C9_Witness ==
    /\ result.kind = "eval"
    /\ calls = 1
    /\ result.val.mat[0][1] > 0
    /\ result.val.mat[1][0] = 0
    /\ result.val.acc > 0

----------------------------------------------------------------------------
(* Claims about the Network engine *)

\* Network.train was left by an exception
TrainRaised == npc = "idle" /\ nresult.kind = "raised" /\ ncall.tr_d # <<>>

\* C4: feedforward on an engine that was constructed and neither trained nor
\* loaded raises instead of returning a prediction.
C4_UninitializedRaises ==
    nresult.kind = "output" => nets[nresult.who].st # "constructed"

\* C5: when a train call is left by a shape error, the instance's weights and
\* biases are those from before the call.
C5_AbortRestores ==
    TrainRaised => Params(nets[ncall.who]) = npre

\* C6: every instance whose cost is cross-entropy has the sigmoid activation.
C6_CostActivation ==
    \A n \in Names :
        (nets[n].alive /\ nets[n].cost = "cross-entropy") => nets[n].activation = "sigmoid"

\* the parameters of net are those of its declared architecture
ShapesConsistent(net) ==
    /\ Len(net.weights) = net.n_layers - 1
    /\ Len(net.biases) = net.n_layers - 1
    /\ net.n_layers = Len(net.struct)
    /\ \A l \in 1..Len(net.weights) :
          l < Len(net.struct) => net.weights[l].shape = <<net.struct[l + 1], net.struct[l]>>
    /\ \A l \in 1..Len(net.biases) :
          l < Len(net.struct) => net.biases[l].shape = <<net.struct[l + 1], 1>>

\* C7: at every moment the parameters of every instance are consistent with
\* its declared architecture (n_layers, struct).
C7_ShapesConsistent ==
    \A n \in Names : nets[n].alive => ShapesConsistent(nets[n])

\* C8: once B has loaded the file A saved, B has A's architecture and layer
\* count, A's strategy names (activation, cost, regularization), A's learning
\* rate, weights and biases, and so A's feedforward output on every input.
C8_RoundTrip ==
    (/\ nresult.kind = "loaded"
     /\ nresult.who = "B"
     /\ nets["A"].alive
     /\ file = Saved(nets["A"]))
    => LET a == nets["A"]
           b == nets["B"]
       IN /\ b.struct = a.struct
          /\ b.n_layers = a.n_layers
          /\ b.activation = a.activation
          /\ b.cost = a.cost
          /\ b.regularization = a.regularization
          /\ b.eta = a.eta
          /\ b.weights = a.weights
          /\ b.biases = a.biases
          /\ \A id \in {1, 2, 3} : Output(b, id) = Output(a, id)

\* position i of the shuffled order is taken by exactly `times` mini-batches
TakenTimes(i, bs) ==
    Cardinality({bk \in (1..Len(nlog)) \X (1..bs) :
                    Len(nlog[bk[1]]) >= bk[2] /\ (bk[1] - 1) * bs + bk[2] = i
                    /\ nlog[bk[1]][bk[2]] = order[i]})

\* C10: when the mini-batches of an epoch are done, order is a permutation of
\* the training set; exactly floor(n / batch_size) updates were applied, the
\* b-th from the sum over the b-th group of batch_size consecutive examples of
\* order; the trailing n mod batch_size examples are in no group (so with
\* n < batch_size the parameters are those the epoch began with); and order
\* changes only in a step taken before any example of the epoch is summed.
C10_Batches ==
    /\ [](npc = "epoch_end" =>
            LET n   == Len(ncall.tr_d)
                bs  == ncall.batch_size
                net == nets[ncall.who]
            IN /\ order \in Perms(ncall.tr_d)
               /\ Len(nlog) = n \div bs
               /\ \A b \in 1..Len(nlog) :
                     /\ Len(nlog[b]) = bs
                     /\ \A k \in 1..bs : nlog[b][k] = order[(b - 1) * bs + k]
               /\ \A i \in 1..n :
                     TakenTimes(i, bs) = IF i <= (n \div bs) * bs THEN 1 ELSE 0
               /\ \A l \in 1..Len(net.weights) :
                     /\ net.weights[l].shape = nepre.weights[l].shape
                     /\ Len(net.weights[l].v.hist) =
                            Len(nepre.weights[l].v.hist) + (n \div bs)
                     /\ \A b \in 1..Len(nlog) :
                           net.weights[l].v.hist[Len(nepre.weights[l].v.hist) + b].batch
                               = nlog[b]
               /\ \A l \in 1..Len(net.biases) :
                     /\ Len(net.biases[l].v.hist) =
                            Len(nepre.biases[l].v.hist) + (n \div bs)
                     /\ \A b \in 1..Len(nlog) :
                           net.biases[l].v.hist[Len(nepre.biases[l].v.hist) + b].batch
                               = nlog[b]
               /\ n < bs => Params(net) = nepre)
    /\ [][order' # order => (npc \in {"idle", "shuffle"} /\ nabla' = <<>> /\ nlog' = <<>>)]_vars

\* the second epoch of a call on three examples with mini-batches of two: one
\* update, the last example of the shuffled order left out
C10_Witness ==
    /\ npc = "epoch_end"
    /\ ni = 1
    /\ Len(ncall.tr_d) = 3
    /\ ncall.batch_size = 2
    /\ Len(nlog) = 1
    /\ order # ncall.tr_d
    /\ Params(nets[ncall.who]) # nepre

====
